---- MODULE Spec2Model ----
(***************************************************************************)
(* Balance Sheet Converter (src/sheet.py).                                 *)
(*                                                                         *)
(* A text is a sequence of one-character strings.  A number is a record:   *)
(*   [k |-> "int", v |-> n]                      a Python int              *)
(*   [k |-> "float", neg |-> b, ip |-> n, c |-> h] a Python float whose    *)
(*        magnitude is ip + c/100 (c in 0..99) and whose sign bit is neg   *)
(*   [k |-> "bigint"]   an int too large for a float (val / factor raises) *)
(* Other cell values: [k |-> "str", s |-> text], [k |-> "none"],           *)
(* [k |-> "obj"] (any other object, e.g. a datetime).                      *)
(***************************************************************************)
EXTENDS Integers, Sequences, FiniteSets, TLC

\* ------------------------------------------------------------ characters

Digit == {"0", "1", "2", "3", "4", "5", "6", "7", "8", "9"}

LowerSeq == <<"a", "b", "c", "d", "e", "f", "g", "h", "i", "j", "k", "l", "m",
              "n", "o", "p", "q", "r", "s", "t", "u", "v", "w", "x", "y", "z">>

UpperSeq == <<"A", "B", "C", "D", "E", "F", "G", "H", "I", "J", "K", "L", "M",
              "N", "O", "P", "Q", "R", "S", "T", "U", "V", "W", "X", "Y", "Z">>

LowerSet == {LowerSeq[i] : i \in DOMAIN LowerSeq}

UpperSet == {UpperSeq[i] : i \in DOMAIN UpperSeq}

Whitespace == {" ", "\t", "\n"}

\* "sup2" stands for the character SUPERSCRIPT TWO: str.isdigit() is true of
\* it, while the regex class \d does not match it.
SuperDigit == {"sup2"}

\* c.lower() and c.upper() of one character
LowerChar(c) ==
    IF c \in UpperSet THEN LowerSeq[CHOOSE i \in DOMAIN UpperSeq : UpperSeq[i] = c] ELSE c

UpperChar(c) ==
    IF c \in LowerSet THEN UpperSeq[CHOOSE i \in DOMAIN LowerSeq : LowerSeq[i] = c] ELSE c

\* str.lower()
Lower(s) == [i \in DOMAIN s |-> LowerChar(s[i])]

\* char.isdigit(), char.isalpha()
IsDigitChar(c) == c \in Digit \cup SuperDigit

IsAlphaChar(c) == c \in LowerSet \cup UpperSet

\* any(char.isdigit() for char in text)
AnyDigit(s) == \E i \in DOMAIN s : IsDigitChar(s[i])

\* str.strip()
RECURSIVE LStrip(_)
LStrip(s) == IF s /= <<>> /\ Head(s) \in Whitespace THEN LStrip(Tail(s)) ELSE s

RECURSIVE RStrip(_)
RStrip(s) ==
    IF s /= <<>> /\ s[Len(s)] \in Whitespace THEN RStrip(SubSeq(s, 1, Len(s) - 1)) ELSE s

Strip(s) == RStrip(LStrip(s))

\* s.startswith(p) at position i (1-based)
MatchAt(s, p, i) ==
    /\ i + Len(p) - 1 <= Len(s)
    /\ \A k \in DOMAIN p : s[i + k - 1] = p[k]

StartsWith(s, p) == MatchAt(s, p, 1)

\* p in s
Contains(s, p) == \E i \in 1..(Len(s) + 1) : MatchAt(s, p, i)

\* s.replace(old, new): every non-overlapping occurrence, left to right
\* (old is never empty here: it is str() of a number)
RECURSIVE ReplaceFrom(_, _, _, _)
ReplaceFrom(s, old, new, i) ==
    IF i > Len(s) THEN <<>>
    ELSE IF MatchAt(s, old, i) THEN new \o ReplaceFrom(s, old, new, i + Len(old))
    ELSE <<s[i]>> \o ReplaceFrom(s, old, new, i + 1)

Replace(s, old, new) == ReplaceFrom(s, old, new, 1)

\* s.replace(',', '')
RemoveCommas(s) == SelectSeq(s, LAMBDA ch : ch /= ",")

\* str.split(): the maximal runs of non-whitespace characters
RECURSIVE SplitFrom(_, _, _)
SplitFrom(s, i, cur) ==
    IF i > Len(s) THEN (IF cur = <<>> THEN <<>> ELSE <<cur>>)
    ELSE IF s[i] \in Whitespace
         THEN (IF cur = <<>> THEN <<>> ELSE <<cur>>) \o SplitFrom(s, i + 1, <<>>)
         ELSE SplitFrom(s, i + 1, Append(cur, s[i]))

Split(s) == SplitFrom(s, 1, <<>>)

\* word.isalpha(), word.isdigit()
IsAlpha(w) == w /= <<>> /\ \A i \in DOMAIN w : IsAlphaChar(w[i])

IsDigit(w) == w /= <<>> /\ \A i \in DOMAIN w : IsDigitChar(w[i])

\* ------------------------------------------------------------ regular expressions
\* The patterns of the re module, as trees.  Ends(re, s, I) is the set of
\* positions at which a match of re that starts at a position of I can end.

Ch(S) == [t |-> "ch", s |-> S]

Cat(rs) == [t |-> "cat", r |-> rs]

Alt(rs) == [t |-> "alt", r |-> rs]

\* r{lo,hi}; hi = -1 is "no upper limit"
Rep(r, lo, hi) == [t |-> "rep", r |-> <<r>>, lo |-> lo, hi |-> hi]

Opt(r) == Rep(r, 0, 1)

Bol == [t |-> "bol"]

Eol == [t |-> "eol"]

\* re.IGNORECASE applied to a character class
CI(S) == S \cup {LowerChar(c) : c \in S} \cup {UpperChar(c) : c \in S}

\* a literal word, and the same under re.IGNORECASE
Lit(w) == Cat([i \in DOMAIN w |-> Ch({w[i]})])

LitCI(w) == Cat([i \in DOMAIN w |-> Ch(CI({w[i]}))])

D == Ch(Digit)

\* '.' matches any character but a newline: the class is given by its complement
AnyChar == [t |-> "dot"]

RECURSIVE Ends(_, _, _)
RECURSIVE CatEnds(_, _, _, _)
RECURSIVE RepEnds(_, _, _, _, _, _)

Ends(re, s, I) ==
    CASE re.t = "ch"  -> {i + 1 : i \in {j \in I : j <= Len(s) /\ s[j] \in re.s}}
      [] re.t = "dot" -> {i + 1 : i \in {j \in I : j <= Len(s) /\ s[j] /= "\n"}}
      [] re.t = "bol" -> I \cap {1}
      [] re.t = "eol" -> {i \in I : i = Len(s) + 1 \/ (i = Len(s) /\ s[i] = "\n")}
      [] re.t = "cat" -> CatEnds(re.r, 1, s, I)
      [] re.t = "alt" -> UNION {Ends(re.r[k], s, I) : k \in DOMAIN re.r}
      [] re.t = "rep" -> RepEnds(re.r[1], re.lo, re.hi, s, I, 0)

CatEnds(rs, k, s, I) ==
    IF k > Len(rs) \/ I = {} THEN I ELSE CatEnds(rs, k + 1, s, Ends(rs[k], s, I))

\* I: the positions reached after n repetitions
RepEnds(r, lo, hi, s, I, n) ==
    IF I = {} THEN {}
    ELSE LET here == IF n >= lo THEN I ELSE {}
         IN  IF hi >= 0 /\ n >= hi THEN here
             ELSE here \cup RepEnds(r, lo, hi, s, Ends(r, s, I), n + 1)

\* re.match(pattern, s) is not None
ReMatch(re, s) == Ends(re, s, {1}) /= {}

\* re.search(pattern, s) is not None
ReSearch(re, s) == Ends(re, s, 1..(Len(s) + 1)) /= {}

SetMax(S) == CHOOSE x \in S : \A y \in S : y <= x

\* re.findall(pattern, s) for a pattern without groups whose greedy match is
\* its longest match and is never empty (true of NumberRe below: each
\* quantifier is followed only by parts that may match nothing).
RECURSIVE FindAllFrom(_, _, _)
FindAllFrom(re, s, i) ==
    IF i > Len(s) THEN <<>>
    ELSE LET e == Ends(re, s, {i})
         IN  IF e = {} THEN FindAllFrom(re, s, i + 1)
             ELSE <<SubSeq(s, i, SetMax(e) - 1)>> \o FindAllFrom(re, s, SetMax(e))

FindAll(re, s) == FindAllFrom(re, s, 1)

\* ------------------------------------------------------------ numbers

IntV(n) == [k |-> "int", v |-> n]

FloatV(neg, ip, c) == [k |-> "float", neg |-> neg, ip |-> ip, c |-> c]

IsNumeric(val) == val.k \in {"int", "float", "bigint"}

AbsInt(n) == IF n < 0 THEN -n ELSE n

DigitVal(ch) == CHOOSE n \in 0..9 : <<"0", "1", "2", "3", "4", "5", "6", "7", "8", "9">>[n + 1] = ch

DigitChar(n) == <<"0", "1", "2", "3", "4", "5", "6", "7", "8", "9">>[n + 1]

\* str(n) of a natural number
RECURSIVE StrNat(_)
StrNat(n) == IF n < 10 THEN <<DigitChar(n)>> ELSE Append(StrNat(n \div 10), DigitChar(n % 10))

\* int(digits)
RECURSIVE NatOf(_)
NatOf(ds) == IF ds = <<>> THEN 0 ELSE 10 * NatOf(SubSeq(ds, 1, Len(ds) - 1)) + DigitVal(ds[Len(ds)])

\* str(x) of an int or of a float: the shortest repr of a float with at most
\* two decimals always shows one decimal at least ("150.0", "1.5", "0.05")
StrNum(x) ==
    IF x.k = "int"
    THEN (IF x.v < 0 THEN <<"-">> ELSE <<>>) \o StrNat(AbsInt(x.v))
    ELSE (IF x.neg THEN <<"-">> ELSE <<>>) \o StrNat(x.ip) \o <<".">>
         \o (IF x.c % 10 = 0 THEN <<DigitChar(x.c \div 10)>>
             ELSE <<DigitChar(x.c \div 10), DigitChar(x.c % 10)>>)

\* float(match) of a match of NumberRe from which the commas were removed:
\* -?digits(.d{1,2})?
ParseFloat(m) ==
    LET neg  == m /= <<>> /\ Head(m) = "-"
        body == IF neg THEN Tail(m) ELSE m
        dot  == IF \E i \in DOMAIN body : body[i] = "."
                THEN CHOOSE i \in DOMAIN body : body[i] = "." ELSE Len(body) + 1
        frac == SubSeq(body, dot + 1, Len(body))
    IN  FloatV(neg, NatOf(SubSeq(body, 1, dot - 1)),
               IF Len(frac) = 0 THEN 0
               ELSE IF Len(frac) = 1 THEN 10 * DigitVal(frac[1])
               ELSE 10 * DigitVal(frac[1]) + DigitVal(frac[2]))

\* abs(val) > threshold, for an integer threshold (abs of a huge int is an int)
AbsGreater(val, threshold) ==
    CASE val.k = "int"    -> AbsInt(val.v) > threshold
      [] val.k = "float"  -> val.ip > threshold \/ (val.ip = threshold /\ val.c > 0)
      [] val.k = "bigint" -> TRUE

\* abs(a) > abs(b) for floats, as max(numbers, key=abs) compares them
FloatAbsGreater(a, b) == a.ip > b.ip \/ (a.ip = b.ip /\ a.c > b.c)

\* The raised-exception marker: what an operator yields when the Python
\* expression raises.
Raise == [k |-> "raise"]

\* a faulty round(q, 2): the digits after the second decimal are cut off
RoundHundredths_Truncate(whole, x, factor, tie) == 100 * whole + (x \div factor)

\* round(q, 2) in hundredths, of the quotient q = whole + x/(100*factor) with
\* 0 <= x < 100*factor.  When q lies exactly halfway between two hundredths the
\* double nearest to it lies on one side or the other, which the exact decimal
\* does not tell: tie (0 or 1) is the side.
RoundHundredths(whole, x, factor, tie) ==
    LET hq == x \div factor
        hr == x % factor
    IN  100 * whole + hq + (IF 2 * hr > factor THEN 1
                            ELSE IF 2 * hr < factor THEN 0 ELSE tie)

\* the float of magnitude h hundredths
FloatOfHundredths(neg, h) == FloatV(neg, h \div 100, h % 100)

\* converted = val / factor
\* int(converted) if converted.is_integer() else round(converted, 2)
Convert(val, factor, tie) ==
    CASE val.k = "bigint" -> Raise   \* OverflowError: int too large for a float
      [] val.k = "int" ->
            IF AbsInt(val.v) % factor = 0 THEN IntV(val.v \div factor)
            ELSE FloatOfHundredths(val.v < 0,
                     RoundHundredths(AbsInt(val.v) \div factor, 100 * (AbsInt(val.v) % factor),
                                     factor, tie))
      [] val.k = "float" ->
            IF val.ip % factor = 0 /\ val.c = 0
            THEN IntV(IF val.neg THEN -(val.ip \div factor) ELSE val.ip \div factor)
            ELSE FloatOfHundredths(val.neg,
                     RoundHundredths(val.ip \div factor, 100 * (val.ip % factor) + val.c,
                                     factor, tie))

\* ------------------------------------------------------------ is_non_monetary_content

\* r'^\d{4}$'
YearRe == Cat(<<Bol, Rep(D, 4, 4), Eol>>)

\* r'^(FY\d{4}|\d{4}-\d{2})$', re.IGNORECASE
FinancialYearRe ==
    Cat(<<Bol,
          Alt(<<Cat(<<LitCI(<<"F", "Y">>), Rep(D, 4, 4)>>),
                Cat(<<Rep(D, 4, 4), Ch({"-"}), Rep(D, 2, 2)>>)>>),
          Eol>>)

\* r'-?\d{1,3}(?:,\d{3})*(?:\.\d{1,2})?'
NumberRe ==
    Cat(<<Opt(Ch({"-"})), Rep(D, 1, 3),
          Rep(Cat(<<Ch({","}), Rep(D, 3, 3)>>), 0, -1),
          Opt(Cat(<<Ch({"."}), Rep(D, 1, 2)>>))>>)

\* r'^-?\d{1,3}(?:,\d{3})*(?:\.\d{1,2})?$'
SimpleNumberRe == Cat(<<Bol, NumberRe, Eol>>)

\* r'\d{1,2}\.\d{1,2}\.\d{4}'
DottedDateRe == Cat(<<Rep(D, 1, 2), Ch({"."}), Rep(D, 1, 2), Ch({"."}), Rep(D, 4, 4)>>)

\* [-/\.]
DateSep == Ch({"-", "/", "."})

\* (jan|feb|mar|apr|may|jun|jul|aug|sep|oct|nov|dec), re.IGNORECASE
MonthRe ==
    Alt([i \in 1..12 |-> LitCI(<<<<"j", "a", "n">>,
                  <<"f", "e", "b">>,
                  <<"m", "a", "r">>,
                  <<"a", "p", "r">>,
                  <<"m", "a", "y">>,
                  <<"j", "u", "n">>,
                  <<"j", "u", "l">>,
                  <<"a", "u", "g">>,
                  <<"s", "e", "p">>,
                  <<"o", "c", "t">>,
                  <<"n", "o", "v">>,
                  <<"d", "e", "c">>>>[i])])

\* (st|nd|rd|th), re.IGNORECASE
OrdinalRe == Alt(<<LitCI(<<"s", "t">>), LitCI(<<"n", "d">>), LitCI(<<"r", "d">>), LitCI(<<"t", "h">>)>>)

\* the list date_patterns, each searched with re.IGNORECASE
date_patterns ==
    << \* r'\d{1,2}[-/\.]\d{1,2}[-/\.]\d{2,4}'
       Cat(<<Rep(D, 1, 2), DateSep, Rep(D, 1, 2), DateSep, Rep(D, 2, 4)>>),
       \* r'\d{4}[-/\.]\d{1,2}[-/\.]\d{1,2}'
       Cat(<<Rep(D, 4, 4), DateSep, Rep(D, 1, 2), DateSep, Rep(D, 1, 2)>>),
       \* r'(jan|...|dec)[a-z]* \d{1,2},? \d{4}'
       Cat(<<MonthRe, Rep(Ch(CI(LowerSet)), 0, -1), Ch({" "}), Rep(D, 1, 2),
             Opt(Ch({","})), Ch({" "}), Rep(D, 4, 4)>>),
       \* r'\d{1,2}(st|nd|rd|th) (jan|...|dec)[a-z]* \d{4}'
       Cat(<<Rep(D, 1, 2), OrdinalRe, Ch({" "}), MonthRe, Rep(Ch(CI(LowerSet)), 0, -1),
             Ch({" "}), Rep(D, 4, 4)>>),
       \* r'\d{1,2}\.\d{1,2}\.\d{4}'
       DottedDateRe,
       \* r'as at \d{1,2}[-/\.]\d{1,2}[-/\.]\d{4}'
       Cat(<<LitCI(<<"a", "s", " ", "a", "t">>), Ch({" "}), Rep(D, 1, 2), DateSep, Rep(D, 1, 2), DateSep,
             Rep(D, 4, 4)>>),
       \* r'closing.*\d{4}'
       Cat(<<LitCI(<<"c", "l", "o", "s", "i", "n", "g">>), Rep(AnyChar, 0, -1), Rep(D, 4, 4)>>) >>

\* the list date_phrases
date_phrases ==
    {<<"a", "s", " ", "a", "t">>,
     <<"a", "t">>,
     <<"o", "n">>,
     <<"d", "a", "t", "e">>,
     <<"y", "e", "a", "r">>,
     <<"p", "e", "r", "i", "o", "d">>,
     <<"c", "l", "o", "s", "i", "n", "g">>,
     <<"o", "p", "e", "n", "i", "n", "g">>,
     <<"b", "e", "g", "i", "n", "n", "i", "n", "g">>,
     <<"e", "n", "d">>,
     <<"f", "i", "n", "a", "n", "c", "i", "a", "l", " ", "y", "e", "a", "r">>,
     <<"f", "y">>}

\* the list patterns, each searched with re.IGNORECASE
patterns ==
    << \* r'[A-Z]{1}[0-9]{5}[A-Z]{2}[0-9]{4}[A-Z]{3}[0-9]{6}'  (CIN)
       Cat(<<Rep(Ch(CI(UpperSet)), 1, 1), Rep(D, 5, 5), Rep(Ch(CI(UpperSet)), 2, 2),
             Rep(D, 4, 4), Rep(Ch(CI(UpperSet)), 3, 3), Rep(D, 6, 6)>>),
       \* r'[A-Z]{3}[0-9]{5}'  (DIN-like)
       Cat(<<Rep(Ch(CI(UpperSet)), 3, 3), Rep(D, 5, 5)>>),
       \* r'[+]{0,1}[0-9]{2,4}[- ]{0,1}[0-9]{3}[- ]{0,1}[0-9]{3}[- ]{0,1}[0-9]{4}'  (phone)
       Cat(<<Rep(Ch({"+"}), 0, 1), Rep(D, 2, 4), Rep(Ch({"-", " "}), 0, 1), Rep(D, 3, 3),
             Rep(Ch({"-", " "}), 0, 1), Rep(D, 3, 3), Rep(Ch({"-", " "}), 0, 1),
             Rep(D, 4, 4)>>),
       \* r'^\d{1,2}(st|nd|rd|th)$'
       Cat(<<Bol, Rep(D, 1, 2), OrdinalRe, Eol>>),
       \* r'(mem|firm|reg|id|no)[\. ]*\d+'
       Cat(<<Alt(<<LitCI(<<"m", "e", "m">>), LitCI(<<"f", "i", "r", "m">>),
                   LitCI(<<"r", "e", "g">>), LitCI(<<"i", "d">>), LitCI(<<"n", "o">>)>>),
             Rep(Ch({".", " "}), 0, -1), Rep(D, 1, -1)>>) >>

\* the list days_months
days_months ==
    {<<"m", "o", "n", "d", "a", "y">>,
     <<"t", "u", "e", "s", "d", "a", "y">>,
     <<"w", "e", "d", "n", "e", "s", "d", "a", "y">>,
     <<"t", "h", "u", "r", "s", "d", "a", "y">>,
     <<"f", "r", "i", "d", "a", "y">>,
     <<"s", "a", "t", "u", "r", "d", "a", "y">>,
     <<"s", "u", "n", "d", "a", "y">>,
     <<"j", "a", "n", "u", "a", "r", "y">>,
     <<"f", "e", "b", "r", "u", "a", "r", "y">>,
     <<"m", "a", "r", "c", "h">>,
     <<"a", "p", "r", "i", "l">>,
     <<"m", "a", "y">>,
     <<"j", "u", "n", "e">>,
     <<"j", "u", "l", "y">>,
     <<"a", "u", "g", "u", "s", "t">>,
     <<"s", "e", "p", "t", "e", "m", "b", "e", "r">>,
     <<"o", "c", "t", "o", "b", "e", "r">>,
     <<"n", "o", "v", "e", "m", "b", "e", "r">>,
     <<"d", "e", "c", "e", "m", "b", "e", "r">>,
     <<"j", "a", "n">>,
     <<"f", "e", "b">>,
     <<"m", "a", "r">>,
     <<"a", "p", "r">>,
     <<"j", "u", "n">>,
     <<"j", "u", "l">>,
     <<"a", "u", "g">>,
     <<"s", "e", "p">>,
     <<"o", "c", "t">>,
     <<"n", "o", "v">>,
     <<"d", "e", "c">>}

\* the list date_related_words
date_related_words ==
    {<<"y", "e", "a", "r">>,
     <<"d", "a", "t", "e">>,
     <<"p", "e", "r", "i", "o", "d">>,
     <<"c", "l", "o", "s", "i", "n", "g">>,
     <<"o", "p", "e", "n", "i", "n", "g">>,
     <<"a", "s">>,
     <<"a", "t">>,
     <<"o", "n">>}

\* any(re.search(pattern, text, re.IGNORECASE) for pattern in pats)
AnySearch(pats, text) == \E i \in DOMAIN pats : ReSearch(pats[i], text)

\* a faulty date_patterns loop: only the patterns with a month name are tried
MatchesDatePattern_MonthNames(text) == AnySearch(SubSeq(date_patterns, 3, 4), text)

\* the date_patterns loop of is_non_monetary_content
MatchesDatePattern(text) == AnySearch(date_patterns, text)

\* the branch taken when the simple-number pattern matches the whole text:
\* a dotted date inside it keeps the text, anything else is a plain number
SimpleNumberVerdict(text) == ReSearch(DottedDateRe, text)

\* the last test of is_non_monetary_content, on words = text_lower.split()
WordsTest(words) ==
    /\ Len(words) > 1
    /\ \E i \in DOMAIN words : IsAlpha(words[i])
    /\ \E i \in DOMAIN words : IsDigit(words[i])
    /\ \E i \in DOMAIN words : words[i] \in date_related_words

\* is_non_monetary_content from text_lower = text.lower().strip() on
ClassifyFrom(text, text_lower) ==
    IF text_lower = <<>> THEN FALSE
    ELSE IF StartsWith(text_lower, <<"=">>) THEN TRUE
    ELSE IF ReMatch(YearRe, text) THEN TRUE
    ELSE IF ReMatch(FinancialYearRe, text) THEN TRUE
    ELSE IF ReMatch(SimpleNumberRe, text) THEN SimpleNumberVerdict(text)
    ELSE IF MatchesDatePattern(text) THEN TRUE
    ELSE IF (\E ph \in date_phrases : Contains(text_lower, ph)) /\ AnyDigit(text) THEN TRUE
    ELSE IF AnySearch(patterns, text) THEN TRUE
    ELSE IF text_lower \in days_months THEN TRUE
    ELSE WordsTest(Split(text_lower))

\* is_non_monetary_content(text), for text a str
Classify(text) == ClassifyFrom(text, Lower(Strip(text)))

\* ------------------------------------------------------------ input texts

GroupedAmountText == <<"1", ",", "5", "0", ",", "0", "0", "0">>

ClosingBalanceRewritten == <<"C", "l", "o", "s", "i", "n", "g", " ", "b", "a", "l", "a", "n", "c", "e", " ", "a", "s", " ", "a", "t", " ", "3", "1", ".", "0", "3", ".", "2", "0", "2", "5", " ", "i", "s", " ", "1", ".", "5">>

ClosingBalanceText == <<"C", "l", "o", "s", "i", "n", "g", " ", "b", "a", "l", "a", "n", "c", "e", " ", "a", "s", " ", "a", "t", " ", "3", "1", ".", "0", "3", ".", "2", "0", "2", "5", " ", "i", "s", " ", "1", ",", "5", "0", ",", "0", "0", "0">>

CinText == <<"U", "7", "2", "3", "0", "0", "D", "L", "2", "0", "1", "5", "N", "P", "L", "2", "8", "5", "4", "6", "3">>

YearText == <<"2", "0", "2", "5">>

FinancialYearText == <<"F", "Y", "2", "0", "2", "5">>

DottedDateText == <<"3", "1", ".", "0", "3", ".", "2", "0", "2", "5">>

FormulaText == <<"=", "A", "1", "*", "2">>

TotalText == <<"T", "o", "t", "a", "l", " ", "1", "5", "0", ".", "5">>

GeminiText == <<"R", "s", " ", "sup2">>

\* further texts, one or more for each rule of the classifier and each branch
\* of the conversion
SampleTexts ==
    {GroupedAmountText, ClosingBalanceText, CinText, YearText, FinancialYearText,
     DottedDateText, FormulaText, TotalText, GeminiText,
     <<"1", ".", "2", ".", "2", "0", "2", "5">>,
     <<"p", "a", "i", "d", " ", "1", "5", "0", ".", "5", " ", "b", "y", " ", "3", "1", ".", "0", "3", ".", "2", "0", "2", "5">>,
     <<"T", "o", "t", "a", "l", " ", "1", "5", "0">>,
     <<"1", "5", "0", ".", "5", " ", "1", ".", "5">>,
     <<"1", "1", "5", "0", ".", "5">>,
     <<"1", "2", " ", "5", " ", "9", "9", "9">>,
     <<"T", "o", "t", "a", "l">>,
     <<>>,
     <<" ", " ">>,
     <<"=", "1", "5", "0", ".", "5", "*", "2">>,
     <<" ", "=", "S", "U", "M", "(", "A", "1", ":", "A", "1", "0", ")">>,
     <<"1", "5", "0", ".", "5">>,
     <<"-", "1", "5", "0", ".", "5">>,
     <<"1", "5", "0", ",", "0", "0", "0", ".", "0", "0">>,
     <<"1", "2", " ", "5", " ", "2", "0", "2", "4">>,
     <<"R", "s", " ", "2", "5", "0", "0", ".", "7", "5", " ", "a", "n", "d", " ", "1", "2", ".", "5">>,
     <<"m", "a", "r", "c", "h">>,
     <<"M", "A", "R", "C", "H", " ">>,
     <<"+", "9", "1", "-", "1", "2", "3", "4", "5", "6", "7", "8", "9", "0">>,
     <<"M", "E", "M", " ", "N", "O", ".", " ", "4", "3", "2", "5", "2", "2">>,
     <<"A", "B", "C", "1", "2", "3", "4", "5">>,
     <<"2", "0", "2", "4", "-", "2", "5">>,
     <<"2", "1", "s", "t">>,
     <<"A", "u", "t", "h", "o", "r", "i", "s", "e", "d", " ", "C", "a", "p", "i", "t", "a", "l">>,
     <<"y", "e", "a", "r", " ", "1", "5", "0", ".", "5">>,
     <<"A", "s", " ", "a", "t", " ", "1", "5", "0", ".", "5">>,
     <<"M", "a", "r", "c", "h", " ", "3", "1", ",", " ", "2", "0", "2", "5">>,
     <<"3", "1", "s", "t", " ", "M", "a", "r", "c", "h", " ", "2", "0", "2", "5">>,
     <<"3", "1", "-", "0", "3", "-", "2", "0", "2", "5">>,
     <<"2", "0", "2", "5", "/", "0", "3", "/", "3", "1">>,
     <<"0", "1", "2", "3", "4", "5", "6", "7">>,
     <<"c", "a", "s", "h", " ", "1", "5", "0", ".", "5", " ", "b", "a", "n", "k", " ", "2", "5", "0", ".", "2", "5">>,
     <<"n", "e", "t", " ", "2", "1", ".", "5", " ", "a", "n", "d", " ", "1", "5", "0", ".", "0">>,
     <<"1", "5", "0", ".", "5", "0", " ", "1", "5", "0", ".", "5">>,
     <<"c", "o", "s", "t", " ", "2", "0", ".", "0">>,
     <<"c", "o", "s", "t", " ", "2", "0", ".", "0", "1">>,
     <<"1", ",", "2", "3", "4", ".", "5", "6">>,
     <<"1", "2", ".", "5">>,
     <<"9", "9", "9">>,
     <<"1", "2", "3", "4", "5">>,
     <<"2", "0", "2", "5", "\n">>,
     <<"5", " ", "o", "n", " ", "1", "5", "0", ".", "5">>,
     <<"T", "o", "t", "a", "l", "\t", "1", "5", "0", ".", "5">>,
     <<"o", "n", "e", " ", "5", " ", "t", "w", "o">>,
     <<"n", "o", ".", " ", "7", "7", ".", "5">>,
     <<"M", "o", "n", "d", "a", "y">>,
     <<"f", "y", " ", "1", "5", "0", ".", "2", "5">>}

\* the longest generated text
MaxLen == 3

SmallAlphabet == {"2", "5", ".", "=", "a", "t"}

\* every text over SmallAlphabet of at most MaxLen characters
GeneratedTexts == UNION {[1..n -> SmallAlphabet] : n \in 0..MaxLen}

Texts == SampleTexts \cup GeneratedTexts

\* Classify over the input texts, evaluated once
ClassifyMemo == [t \in Texts |-> Classify(t)]

\* is_non_monetary_content(text)
is_non_monetary_content(text) ==
    IF text \in DOMAIN ClassifyMemo THEN ClassifyMemo[text] ELSE Classify(text)

\* ------------------------------------------------------------ cell conversion

StrV(s) == [k |-> "str", s |-> s]

NoneV == [k |-> "none"]

Units == {"Hundred", "Thousand", "Lakhs", "Crore"}

\* the dict conversion_factors
conversion_factors(conversion_unit) ==
    CASE conversion_unit = "Hundred"  -> 100
      [] conversion_unit = "Thousand" -> 1000
      [] conversion_unit = "Lakhs"    -> 100000
      [] conversion_unit = "Crore"    -> 10000000

\* a faulty numeric branch: abs(val) >= threshold in place of abs(val) > threshold
NumericBranch_AtThreshold(val, factor, threshold, tie) ==
    IF AbsGreater(val, threshold)
       \/ (val.k = "int" /\ AbsInt(val.v) = threshold)
       \/ (val.k = "float" /\ val.ip = threshold /\ val.c = 0)
    THEN Convert(val, factor, tie) ELSE val

\* the numeric branch: a value above the threshold is divided, any other is kept
NumericBranch(val, factor, threshold, tie) ==
    IF AbsGreater(val, threshold) THEN Convert(val, factor, tie) ELSE val

\* [float(match.replace(',', '')) for match in num_matches]
ParseMatches(num_matches) ==
    [i \in DOMAIN num_matches |-> ParseFloat(RemoveCommas(num_matches[i]))]

\* a faulty extraction: the pattern is applied to val with its commas
FindNumbers_WithCommas(text) == ParseMatches(FindAll(NumberRe, text))

\* num_matches = re.findall(NumberRe, val.replace(',', ''))
\* numbers = [float(match.replace(',', '')) for match in num_matches]
FindNumbers(text) == ParseMatches(FindAll(NumberRe, RemoveCommas(text)))

\* FindNumbers over the input texts, evaluated once
FindNumbersMemo == [t \in Texts |-> FindNumbers(t)]

ExtractNumbers(text) ==
    IF text \in DOMAIN FindNumbersMemo THEN FindNumbersMemo[text] ELSE FindNumbers(text)

\* len(numbers) == 3 and all(0 < num < 32 for num in numbers[:2]) and numbers[2] > 1900
DateGuard(numbers) ==
    /\ Len(numbers) = 3
    /\ \A i \in 1..2 : ~numbers[i].neg /\ (numbers[i].ip > 0 \/ numbers[i].c > 0)
                       /\ numbers[i].ip < 32
    /\ ~numbers[3].neg
    /\ (numbers[3].ip > 1900 \/ (numbers[3].ip = 1900 /\ numbers[3].c > 0))

\* max(numbers, key=abs): the first of the numbers of greatest magnitude
LargestNum(numbers) ==
    numbers[CHOOSE i \in DOMAIN numbers :
                /\ \A j \in DOMAIN numbers : ~FloatAbsGreater(numbers[j], numbers[i])
                /\ \A j \in 1..(i - 1) : FloatAbsGreater(numbers[i], numbers[j])]

\* sorted(numbers, key=lambda x: len(str(x)), reverse=True): stable, so numbers
\* of equal key keep their order
RECURSIVE SortedByStrLen(_)
SortedByStrLen(numbers) ==
    IF numbers = <<>> THEN <<>>
    ELSE LET n     == Len(numbers)
             x     == numbers[n]
             front == SortedByStrLen(SubSeq(numbers, 1, n - 1))
             keep  == Cardinality({i \in DOMAIN front : Len(StrNum(front[i])) >= Len(StrNum(x))})
         IN  SubSeq(front, 1, keep) \o <<x>> \o SubSeq(front, keep + 1, Len(front))

\* for num in sorted(...):
\*     if abs(num) > threshold:
\*         new_val = new_val.replace(str(num), str(converted))
RECURSIVE ReplaceLoop(_, _, _, _, _, _)
ReplaceLoop(new_val, nums, i, factor, threshold, tie) ==
    IF i > Len(nums) THEN new_val
    ELSE ReplaceLoop(
             IF AbsGreater(nums[i], threshold)
             THEN Replace(new_val, StrNum(nums[i]), StrNum(Convert(nums[i], factor, tie)))
             ELSE new_val,
             nums, i + 1, factor, threshold, tie)

\* the rewriting of a text in which the regex found numbers
RewriteText(text, numbers, factor, threshold, tie) ==
    IF DateGuard(numbers) THEN text
    ELSE IF AbsGreater(LargestNum(numbers), threshold)
         THEN ReplaceLoop(text, SortedByStrLen(numbers), 1, factor, threshold, tie)
         ELSE text

\* the string branch of convert_units_in_cell, for numbers the floats the
\* number pattern found: without any the text is kept
TextBranch(val, numbers, factor, threshold, tie) ==
    IF numbers /= <<>> THEN StrV(RewriteText(val.s, numbers, factor, threshold, tie)) ELSE val

\* a faulty body: the classifier is not asked
ConvertCellBody_NoClassifier(val, conversion_unit, threshold, tie) ==
    IF IsNumeric(val)
    THEN NumericBranch(val, conversion_factors(conversion_unit), threshold, tie)
    ELSE IF val.k = "str"
         THEN TextBranch(val, ExtractNumbers(val.s), conversion_factors(conversion_unit),
                         threshold, tie)
    ELSE val

\* convert_units_in_cell(val, conversion_unit, threshold): the body of its try
ConvertCellBody(val, conversion_unit, threshold, tie) ==
    IF val.k = "str" /\ is_non_monetary_content(val.s) THEN val
    ELSE IF IsNumeric(val)
         THEN NumericBranch(val, conversion_factors(conversion_unit), threshold, tie)
    ELSE IF val.k = "str"
         THEN TextBranch(val, ExtractNumbers(val.s), conversion_factors(conversion_unit),
                         threshold, tie)
    ELSE val

\* except Exception: return val, for r what the try body gave
ReturnOrVal(r, val) == IF r = Raise THEN val ELSE r

\* convert_units_in_cell(val, conversion_unit, threshold)
convert_units_in_cell(val, conversion_unit, threshold, tie) ==
    ReturnOrVal(ConvertCellBody(val, conversion_unit, threshold, tie), val)

\* lru_cache: the list the function returned is kept for the text
CacheStore(text, numbers, cache) ==
    [numbers |-> numbers,
     cache |-> [t \in DOMAIN cache \cup {text} |-> IF t = text THEN numbers ELSE cache[t]]]

\* cached_gemini_extraction(text, api_key) under lru_cache: a text already in
\* the cache gets the cached list; otherwise the list is [] for a text without
\* a digit or a non-monetary text, and else what the service answers: gemini
\* maps a text to the numbers parsed from the answer (an exception inside is
\* caught and gives []).  Yields the list and the cache.
cached_gemini_extraction(text, gemini, cache) ==
    IF text \in DOMAIN cache THEN [numbers |-> cache[text], cache |-> cache]
    ELSE CacheStore(text,
                    IF text = <<>> \/ ~AnyDigit(text) THEN <<>>
                    ELSE IF is_non_monetary_content(text) THEN <<>>
                    ELSE IF text \in DOMAIN gemini THEN gemini[text]
                    ELSE <<>>,
                    cache)

\* what is appended for val once the service answered g.numbers: the largest
\* of them converted, as a str, when it is above the threshold
GeminiAnswered(val, g, factor, threshold, tie) ==
    [out |-> IF g.numbers /= <<>> /\ AbsGreater(LargestNum(g.numbers), threshold)
             THEN StrV(StrNum(Convert(LargestNum(g.numbers), factor, tie)))
             ELSE val,
     cache |-> g.cache]

\* the branch of process_cell_batch for a text in which the regex finds no
\* number: the service is asked when the text has a digit and a key is set
GeminiBranch(val, factor, threshold, api_key, tie, gemini, cache) ==
    IF AnyDigit(val.s) /\ api_key
    THEN GeminiAnswered(val, cached_gemini_extraction(val.s, gemini, cache), factor, threshold, tie)
    ELSE [out |-> val, cache |-> cache]

\* process_cell_batch: the body of the try for one val.  out is the value
\* appended to results, or Raise.
BatchCellBody(val, factor, threshold, api_key, tie, gemini, cache) ==
    IF val.k = "str" /\ is_non_monetary_content(val.s) THEN [out |-> val, cache |-> cache]
    ELSE IF IsNumeric(val)
         THEN [out |-> NumericBranch(val, factor, threshold, tie), cache |-> cache]
    ELSE IF val.k = "str"
         THEN IF ExtractNumbers(val.s) /= <<>>
              THEN [out |-> TextBranch(val, ExtractNumbers(val.s), factor, threshold, tie),
                    cache |-> cache]
              ELSE GeminiBranch(val, factor, threshold, api_key, tie, gemini, cache)
    ELSE [out |-> val, cache |-> cache]

\* a faulty handler: except Exception: pass
OnException_Pass(results, val) == results

\* except Exception: results.append(val)
OnException(results, val) == Append(results, val)

\* results after the try statement for val, whose body gave out
Appended(results, val, out) ==
    IF out = Raise THEN OnException(results, val) ELSE Append(results, out)

\* for val in cell_values: try: ... except Exception: ...
\* BatchNext goes on after the body gave b for cell_values[i].
RECURSIVE BatchLoop(_, _, _, _, _, _, _, _, _)
RECURSIVE BatchNext(_, _, _, _, _, _, _, _, _)
BatchLoop(cell_values, i, results, factor, threshold, api_key, tie, gemini, cache) ==
    IF i > Len(cell_values) THEN [results |-> results, cache |-> cache]
    ELSE BatchNext(cell_values, i, results,
                   BatchCellBody(cell_values[i], factor, threshold, api_key, tie, gemini, cache),
                   factor, threshold, api_key, tie, gemini)

BatchNext(cell_values, i, results, b, factor, threshold, api_key, tie, gemini) ==
    BatchLoop(cell_values, i + 1, Appended(results, cell_values[i], b.out),
              factor, threshold, api_key, tie, gemini, b.cache)

\* process_cell_batch(cell_values, conversion_unit, threshold, api_key): the
\* list results and the cache of the service's answers after the call
process_cell_batch(cell_values, conversion_unit, threshold, api_key, tie, gemini, cache) ==
    BatchLoop(cell_values, 1, <<>>, conversion_factors(conversion_unit), threshold,
              api_key, tie, gemini, cache)

\* ------------------------------------------------------------ documents
\* A worksheet is a sequence of rows of cells [value, data]: value is what
\* the workbook loaded with data_only=False holds (a formula cell holds its
\* formula text), data what the one loaded with data_only=True holds (for a
\* formula cell its last computed value, or None when the file has none).
\* A PDF table is a sequence of rows of strings and Nones.

Cell(value, data) == [value |-> value, data |-> data]

Plain(value) == Cell(value, value)

MinInt(a, b) == IF a < b THEN a ELSE b

\* f"(in {conversion_unit})"
UnitLabel(conversion_unit) == StrV(<<"(in ", conversion_unit, ")">>)

EmptyLabel == StrV(<<>>)

max_row(ws) == Len(ws)

max_column(ws) == Len(ws[1])

\* the loops over row and col of create_preserve_excel: the cells whose value
\* is not None, row by row, each with the value to process (the computed one
\* when there is one) and its position
CollectCells(ws) ==
    LET ncol == max_column(ws)
        all  == [n \in 1..(max_row(ws) * ncol) |->
                    LET row  == ((n - 1) \div ncol) + 1
                        col  == ((n - 1) % ncol) + 1
                        cell == ws[row][col]
                    IN  [pos |-> <<row, col>>, cell |-> cell,
                         val |-> IF cell.data /= NoneV THEN cell.data ELSE cell.value]]
    IN  SelectSeq(all, LAMBDA e : e.cell.value /= NoneV)

\* for (row, col), new_value in zip(cell_positions, processed_values):
\*     ws.cell(row=row, column=col).value = new_value
\* The result is the grid of the values of ws.
WriteBack(ws, cell_positions, processed_values) ==
    [row \in 1..max_row(ws) |->
        [col \in 1..max_column(ws) |->
            LET hits == {i \in 1..MinInt(Len(cell_positions), Len(processed_values)) :
                            cell_positions[i] = <<row, col>>}
            IN  IF hits = {} THEN ws[row][col].value ELSE processed_values[SetMax(hits)]]]

\* the unit row of create_preserve_excel, over the grid of written values
ExcelUnitRow(grid, conversion_unit) ==
    [col \in 1..Len(grid[1]) |->
        IF \E row \in 2..(MinInt(Len(grid) + 1, 100) - 1) : IsNumeric(grid[row][col])
        THEN UnitLabel(conversion_unit) ELSE EmptyLabel]

\* the threshold both document functions pass to process_cell_batch: the
\* literal 20
DocThreshold == 20

\* what create_preserve_excel leaves once the values b.results are written:
\* the call made, the sheet under its unit row (ws.insert_rows(1), then the
\* unit row is written into row 1), the cache
ExcelSaved(cell_values, cell_positions, b, grid, conversion_unit) ==
    [batches |-> <<[cell_values |-> cell_values, cell_positions |-> cell_positions,
                    processed_values |-> b.results]>>,
     output  |-> <<ExcelUnitRow(grid, conversion_unit)>> \o grid,
     cache   |-> b.cache]

\* create_preserve_excel from the return of process_cell_batch (b) on
ExcelProcessed(ws, cell_values, cell_positions, b, conversion_unit) ==
    ExcelSaved(cell_values, cell_positions, b, WriteBack(ws, cell_positions, b.results),
               conversion_unit)

\* create_preserve_excel from the collected cell_values and cell_positions on
ExcelCollected(ws, cell_values, cell_positions, conversion_unit, api_key, tie, gemini, cache) ==
    ExcelProcessed(ws, cell_values, cell_positions,
                   process_cell_batch(cell_values, conversion_unit, DocThreshold, api_key,
                                      tie, gemini, cache),
                   conversion_unit)

\* the lists cell_values and cell_positions of the collected cells
CellValuesOf(cells) == [i \in DOMAIN cells |-> cells[i].val]

CellPositionsOf(cells) == [i \in DOMAIN cells |-> cells[i].pos]

\* create_preserve_excel for a workbook of one sheet (the sheets are
\* processed one after the other, each on its own)
create_preserve_excel(ws, conversion_unit, api_key, tie, gemini, cache) ==
    ExcelCollected(ws, CellValuesOf(CollectCells(ws)), CellPositionsOf(CollectCells(ws)),
                   conversion_unit, api_key, tie, gemini, cache)

\* isinstance(val, (int, float)) and abs(val) < 1000 and val == round(val, 2)
LooksConverted(val) ==
    CASE val.k = "int"   -> AbsInt(val.v) < 1000
      [] val.k = "float" -> val.ip < 1000
      [] OTHER           -> FALSE

\* add_unit_row(df, conversion_unit): df is a sequence of rows
add_unit_row(df, conversion_unit) ==
    LET unit_row == [col \in 1..Len(df[1]) |->
                        \* df[col].head(10).dropna()
                        IF \E row \in 1..MinInt(Len(df), 10) :
                               df[row][col] /= NoneV /\ LooksConverted(df[row][col])
                        THEN UnitLabel(conversion_unit) ELSE EmptyLabel]
    IN  <<unit_row>> \o df

\* df[col] = b.results, for b what process_cell_batch returned for the column:
\* acc with the call added, the column replaced (assigning a list to df[col]
\* needs it as long as the index), the cache
PdfColumnAssigned(acc, col, cell_values, b) ==
    [batches |-> Append(acc.batches,
                    [cell_values |-> cell_values,
                     cell_positions |-> [row \in 1..Len(acc.df) |-> <<row, col>>],
                     processed_values |-> b.results]),
     df |-> [row \in 1..Len(acc.df) |->
               [c \in 1..Len(acc.df[1]) |->
                   IF c = col /\ Len(b.results) = Len(acc.df)
                   THEN b.results[row] ELSE acc.df[row][c]]],
     cache |-> b.cache]

\* df[col] = process_cell_batch(df[col].tolist(), conversion_unit, 20, api_key)
PdfColumn(acc, col, cell_values, conversion_unit, api_key, tie, gemini) ==
    PdfColumnAssigned(acc, col, cell_values,
                      process_cell_batch(cell_values, conversion_unit, DocThreshold, api_key,
                                         tie, gemini, acc.cache))

\* for col in df.columns: ...
\* acc holds the batches made so far, the table and the cache.
RECURSIVE PdfColumns(_, _, _, _, _, _)
PdfColumns(acc, col, conversion_unit, api_key, tie, gemini) ==
    IF col > Len(acc.df[1]) THEN acc
    ELSE PdfColumns(PdfColumn(acc, col, [row \in 1..Len(acc.df) |-> acc.df[row][col]],
                              conversion_unit, api_key, tie, gemini),
                    col + 1, conversion_unit, api_key, tie, gemini)

\* df = add_unit_row(df, conversion_unit), for done what the loop left
PdfTable(done, conversion_unit) ==
    [batches |-> done.batches,
     output  |-> add_unit_row(done.df, conversion_unit),
     cache   |-> done.cache]

\* extract_tables_from_pdf for a PDF that holds one table
extract_tables_from_pdf(table, conversion_unit, api_key, tie, gemini, cache) ==
    PdfTable(PdfColumns([batches |-> <<>>, df |-> table, cache |-> cache], 1,
                        conversion_unit, api_key, tie, gemini),
             conversion_unit)

\* ------------------------------------------------------------ inputs

Numbers ==
    {IntV(n) : n \in {0, 5, 20, 21, -20, -21, 100, 101, 150, 199, 12345, 2500000, -2500000, 75000000}}
    \cup {FloatV(neg, ip, c) : neg \in BOOLEAN, ip \in {0, 20, 150, 2500000}, c \in {0, 1, 50, 99}}
    \cup {[k |-> "bigint"]}

\* what a cell can hold: a number, a text, None, or another object
Values == Numbers \cup {StrV(t) : t \in Texts} \cup {NoneV, [k |-> "obj"]}

\* the thresholds the two functions are called with
Thresholds == {0, 20, 100}

\* the mapping without entries: an empty cache, a service that never answers
Emp == [t \in {} |-> <<>>]

\* the rows a worksheet is made of (two columns)
ExcelRows ==
    {<<Plain(IntV(5)), Plain(IntV(30))>>,
     <<Plain(IntV(2500000)), Cell(StrV(FormulaText), NoneV)>>,
     <<Cell(StrV(FormulaText), IntV(2500000)), Plain(StrV(TotalText))>>,
     <<Plain([k |-> "obj"]), Plain([k |-> "bigint"])>>,
     <<Plain(NoneV), Plain(StrV(GeminiText))>>}

\* the rows a PDF table is made of (two columns of strings and Nones)
PdfRows ==
    {<<StrV(<<"1", "5", "0", ".", "5">>), StrV(<<"T", "o", "t", "a", "l">>)>>,
     <<NoneV, StrV(YearText)>>,
     <<StrV(<<"5">>), StrV(GeminiText)>>}

\* the most rows of an uploaded sheet or table
MaxRows == 2

Sheets == UNION {[1..n -> ExcelRows] : n \in 1..MaxRows}

Tables == UNION {[1..n -> PdfRows] : n \in 1..MaxRows}

\* what the service may answer for the texts sent to it
GeminiOracles == [{GeminiText} -> {<<>>, <<FloatV(FALSE, 150000, 0)>>}]

\* value=20 of the threshold slider
SliderDefault == 20

\* the values of the threshold slider (0 to 100) the user sets
SliderValues == {SliderDefault, 50}

NoFile == [type |-> "none"]

\* ------------------------------------------------------------ state

VARIABLES
    st_conversion_unit, \* the selectbox "Select conversion unit:"
    st_threshold,       \* the slider "Conversion threshold"
    use_gemini,         \* whether an API key is set and was accepted
    uploaded_file,      \* the uploaded document, or NoFile
    env,                \* the session's surroundings: the side on which halfway quotients
                        \* fall as doubles, and what the service answers for each text
    gemini_cache,       \* the lru_cache of cached_gemini_extraction
    batches,            \* the calls of process_cell_batch of the last run
    output,             \* the converted sheet or table of the last run
    arg,                \* the arguments of a direct call of one of the functions
    ret,                \* what that call returned
    pc                  \* "app": the application; else the stage of the direct call

vars == <<st_conversion_unit, st_threshold, use_gemini, uploaded_file, env,
          gemini_cache, batches, output, arg, ret, pc>>

ui_vars == <<st_conversion_unit, st_threshold, use_gemini, uploaded_file, env,
             gemini_cache, batches, output>>

Envs == [tie : {0, 1}, gemini : GeminiOracles]

NoArg == [k |-> "none"]

\* the state of the page when it is first shown: index=1 selects "Lakhs",
\* value=20 sets the slider, no key, no file
InitApp ==
    /\ st_conversion_unit = "Lakhs"
    /\ st_threshold = SliderDefault
    /\ use_gemini = FALSE
    /\ uploaded_file = NoFile
    /\ gemini_cache = Emp
    /\ batches = <<>>
    /\ output = <<>>

Init ==
    /\ InitApp
    /\ env \in Envs
    /\ arg = NoArg
    /\ ret = NoArg
    /\ pc = "app"

\* ------------------------------------------------------------ the application
\* Streamlit runs the script from the top after every interaction: the part
\* under "if uploaded_file is not None" converts the uploaded file anew.

\* the script's call of create_preserve_excel or extract_tables_from_pdf
\* (api_key if use_gemini else None); the slider's value is passed to neither
ProcessFile(file, conversion_unit, threshold, api_key, tie, gemini, cache) ==
    IF file.type = "xlsx"
    THEN create_preserve_excel(file.doc, conversion_unit, api_key, tie, gemini, cache)
    ELSE extract_tables_from_pdf(file.doc, conversion_unit, api_key, tie, gemini, cache)

\* one run of the script with the widgets' new values
Rerun(file, conversion_unit, threshold, api_key) ==
    IF file = NoFile
    THEN /\ batches' = <<>>
         /\ output' = <<>>
         /\ gemini_cache' = gemini_cache
    ELSE \E r \in {ProcessFile(file, conversion_unit, threshold, api_key, env.tie, env.gemini,
                              gemini_cache)} :
            /\ batches' = r.batches
            /\ output' = r.output
            /\ gemini_cache' = r.cache

SelectUnit ==
    /\ pc = "app"
    /\ \E u \in Units \ {st_conversion_unit} :
          /\ st_conversion_unit' = u
          /\ Rerun(uploaded_file, u, st_threshold, use_gemini)
    /\ UNCHANGED <<st_threshold, use_gemini, uploaded_file, env, arg, ret, pc>>

MoveSlider ==
    /\ pc = "app"
    /\ \E t \in SliderValues \ {st_threshold} :
          /\ st_threshold' = t
          /\ Rerun(uploaded_file, st_conversion_unit, t, use_gemini)
    /\ UNCHANGED <<st_conversion_unit, use_gemini, uploaded_file, env, arg, ret, pc>>

\* the key is typed (and setup_gemini accepts it) or removed
EnterApiKey ==
    /\ pc = "app"
    /\ use_gemini' = ~use_gemini
    /\ Rerun(uploaded_file, st_conversion_unit, st_threshold, ~use_gemini)
    /\ UNCHANGED <<st_conversion_unit, st_threshold, uploaded_file, env, arg, ret, pc>>

UploadExcel ==
    /\ pc = "app"
    /\ uploaded_file = NoFile
    /\ \E ws \in Sheets :
          /\ uploaded_file' = [type |-> "xlsx", doc |-> ws]
          /\ Rerun([type |-> "xlsx", doc |-> ws], st_conversion_unit, st_threshold, use_gemini)
    /\ UNCHANGED <<st_conversion_unit, st_threshold, use_gemini, env, arg, ret, pc>>

UploadPdf ==
    /\ pc = "app"
    /\ uploaded_file = NoFile
    /\ \E table \in Tables :
          /\ uploaded_file' = [type |-> "pdf", doc |-> table]
          /\ Rerun([type |-> "pdf", doc |-> table], st_conversion_unit, st_threshold, use_gemini)
    /\ UNCHANGED <<st_conversion_unit, st_threshold, use_gemini, env, arg, ret, pc>>

\* the user removes the file from the uploader
RemoveFile ==
    /\ pc = "app"
    /\ uploaded_file /= NoFile
    /\ uploaded_file' = NoFile
    /\ Rerun(NoFile, st_conversion_unit, st_threshold, use_gemini)
    /\ UNCHANGED <<st_conversion_unit, st_threshold, use_gemini, env, arg, ret, pc>>

Next ==
    \/ SelectUnit
    \/ MoveSlider
    \/ EnterApiKey
    \/ UploadExcel
    \/ UploadPdf
    \/ RemoveFile

Spec == Init /\ [][Next]_vars

\* ------------------------------------------------------------ direct calls
\* The two conversion functions and the classifier, each called once on
\* arguments drawn from the input sets.

InitCell ==
    /\ InitApp
    /\ env = [tie |-> 0, gemini |-> [t \in {GeminiText} |-> <<>>]]
    /\ arg \in [val : Values, conversion_unit : Units, threshold : Thresholds, tie : {0, 1}]
    /\ ret = NoArg
    /\ pc = "ready"

CallConvertUnitsInCell ==
    /\ pc = "ready"
    /\ ret' = convert_units_in_cell(arg.val, arg.conversion_unit, arg.threshold, arg.tie)
    /\ pc' = "cell"
    /\ UNCHANGED <<ui_vars, arg>>

\* process_cell_batch([val], conversion_unit, threshold): no API key
CallProcessCellBatch ==
    /\ pc = "ready"
    /\ ret' = process_cell_batch(<<arg.val>>, arg.conversion_unit, arg.threshold, FALSE,
                                 arg.tie, Emp, Emp).results
    /\ pc' = "batch"
    /\ UNCHANGED <<ui_vars, arg>>

CallIsNonMonetaryContent ==
    /\ pc = "ready"
    /\ arg.val.k = "str"
    /\ ret' = is_non_monetary_content(arg.val.s)
    /\ pc' = "classified"
    /\ UNCHANGED <<ui_vars, arg>>

NextCell ==
    \/ CallConvertUnitsInCell
    \/ CallProcessCellBatch
    \/ CallIsNonMonetaryContent

SpecCell == InitCell /\ [][NextCell]_vars

\* ------------------------------------------------------------ the claims

\* a direct call of convert_units_in_cell or process_cell_batch has returned
Called == pc \in {"cell", "batch"}

\* what the call returned is v (process_cell_batch: the list of v alone)
Returned(v) == (pc = "cell" /\ ret = v) \/ (pc = "batch" /\ ret = <<v>>)

\* val is an int or a float (one a double can hold)
IsIntOrFloat(val) == val.k \in {"int", "float"}

\* abs(val) <= t
AbsAtMost(val, t) ==
    CASE val.k = "int"   -> -t <= val.v /\ val.v <= t
      [] val.k = "float" -> val.ip < t \/ (val.ip = t /\ val.c = 0)
      [] OTHER           -> FALSE

\* C1: for a numeric cell value m (int or float), every unit and every
\* threshold t, abs(m) <= t (abs(m) = t included) makes convert_units_in_cell
\* and process_cell_batch return m itself, the same in value and type.
C1_AtOrBelowThresholdUnchanged ==
    (Called /\ IsIntOrFloat(arg.val) /\ AbsAtMost(arg.val, arg.threshold))
        => Returned(arg.val)

\* process_cell_batch has returned the float -20.0 for -20.0 at threshold 20
C1_Witness ==
    /\ pc = "batch"
    /\ arg.val = FloatV(TRUE, 20, 0)
    /\ arg.threshold = 20
    /\ arg.conversion_unit = "Crore"
    /\ ret = <<FloatV(TRUE, 20, 0)>>

\* r is val / f as the code is to give it: the integer when the quotient has
\* no fractional part, else a float of the quotient's sign that lies within
\* half a hundredth of it.  The quotient is q + x / (100 * f), 0 <= x < 100 * f.
IsQuotient(r, val, f) ==
    LET mag == IF val.k = "int" THEN AbsInt(val.v) ELSE val.ip
        neg == IF val.k = "int" THEN val.v < 0 ELSE val.neg
        q   == mag \div f
        x   == 100 * (mag % f) + (IF val.k = "int" THEN 0 ELSE val.c)
    IN  IF x = 0 THEN r = IntV(IF neg THEN -q ELSE q)
        ELSE /\ r.k = "float"
             /\ r.neg = neg
             /\ r.c \in 0..99
             /\ (100 * r.ip + r.c) - 100 * q \in 0..100
             /\ 2 * AbsInt(((100 * r.ip + r.c) - 100 * q) * f - x) <= f

C3_GroupedAmountRewritten ==
    (Called /\ arg.val = StrV(GroupedAmountText) /\ arg.conversion_unit = "Lakhs"
            /\ arg.threshold = 20)
        => (Returned(FloatV(FALSE, 1, 50)) \/ Returned(StrV(<<"1", ".", "5">>)))

\* convert_units_in_cell has returned "1,50,000" as it was
C3_ReturnedUnchanged ==
    /\ pc = "cell"
    /\ arg.val = StrV(GroupedAmountText)
    /\ arg.conversion_unit = "Lakhs"
    /\ arg.threshold = 20
    /\ ret = StrV(GroupedAmountText)

\* C4: in a text cell with a date phrase and an amount above the threshold
\* the date phrase is kept and the amount alone is rewritten: under Lakhs
\* "Closing balance as at 31.03.2025 is 1,50,000" becomes
\* "Closing balance as at 31.03.2025 is 1.5".
C4_AmountBesideDateRewritten ==
    (Called /\ arg.val = StrV(ClosingBalanceText) /\ arg.conversion_unit = "Lakhs")
        => Returned(StrV(ClosingBalanceRewritten))

\* process_cell_batch has returned the whole text as it was
C4_ReturnedUnchanged ==
    /\ pc = "batch"
    /\ arg.val = StrV(ClosingBalanceText)
    /\ arg.conversion_unit = "Lakhs"
    /\ arg.threshold = 20
    /\ ret = <<StrV(ClosingBalanceText)>>

\* one text of each sort the classifier is to keep: a formula, a bare year, a
\* date, a CIN, a DIN-like identifier, a phone number, a registration number,
\* a weekday and a month name
NonMonetaryExamples ==
    {FormulaText, YearText, DottedDateText, CinText,
     <<"A", "B", "C", "1", "2", "3", "4", "5">>,
     <<"+", "9", "1", "-", "1", "2", "3", "4", "5", "6", "7", "8", "9", "0">>,
     <<"M", "E", "M", " ", "N", "O", ".", " ", "4", "3", "2", "5", "2", "2">>,
     <<"M", "o", "n", "d", "a", "y">>,
     <<"m", "a", "r", "c", "h">>}

\* C5: a text cell the classifier reports as non-monetary is returned
\* verbatim by convert_units_in_cell and process_cell_batch for every unit and
\* every threshold; a formula text, a bare year, a date, a CIN or DIN, a phone
\* number, a registration number and a weekday or month name are such texts,
\* and the CIN "U72300DL2015NPL285463" is unchanged under any unit.
C5_NonMonetaryVerbatim ==
    /\ (Called /\ arg.val.k = "str" /\ is_non_monetary_content(arg.val.s))
           => Returned(arg.val)
    /\ (Called /\ arg.val.k = "str" /\ arg.val.s \in NonMonetaryExamples)
           => (is_non_monetary_content(arg.val.s) /\ Returned(arg.val))

\* convert_units_in_cell has returned the CIN, in which the number pattern
\* finds digits above the threshold, as it was
C5_Witness ==
    /\ pc = "cell"
    /\ arg.val = StrV(CinText)
    /\ arg.conversion_unit = "Hundred"
    /\ arg.threshold = 0
    /\ ExtractNumbers(CinText) /= <<>>
    /\ ret = StrV(CinText)

\* C6: the classifier gives true for "2025", "FY2025" and "31.03.2025" and
\* false for "1,50,000"; a text of the shape dd.mm.yyyy is never passed as a
\* plain formatted number: the simple-number rule does not match it, so that
\* the verdict is true in whichever order the two rules are tried.
C6_ClassifierVerdicts ==
    pc = "classified" =>
        /\ arg.val.s \in {YearText, FinancialYearText, DottedDateText} => ret = TRUE
        /\ arg.val.s = GroupedAmountText => ret = FALSE
        /\ ReSearch(DottedDateRe, arg.val.s)
               => (ret = TRUE /\ ~ReMatch(SimpleNumberRe, arg.val.s))

\* the classifier has returned true for "31.03.2025"
C6_Witness ==
    /\ pc = "classified"
    /\ arg.val = StrV(DottedDateText)
    /\ ReSearch(DottedDateRe, arg.val.s)
    /\ ret = TRUE

\* the values process_cell_batch was given for column col, and whether one of
\* them came back changed
ColumnValues(col) ==
    UNION {{batches[b].cell_values[i] :
                i \in {j \in DOMAIN batches[b].cell_values : batches[b].cell_positions[j][2] = col}} :
           b \in DOMAIN batches}

ColumnConverted(col) ==
    \E b \in DOMAIN batches : \E i \in DOMAIN batches[b].cell_values :
        /\ batches[b].cell_positions[i][2] = col
        /\ batches[b].processed_values[i] /= batches[b].cell_values[i]

\* C7: in the row put on top of a table or sheet, a column whose values are
\* all at or below the threshold (so none is converted) has the label "", and
\* a column with at least one converted value has "(in <unit>)", for PDF
\* tables and for workbooks.
C7_UnitRowLabels ==
    uploaded_file /= NoFile =>
        \A col \in DOMAIN output[1] :
            /\ (ColumnValues(col) /= {}
                  /\ \A v \in ColumnValues(col) : IsIntOrFloat(v) /\ AbsAtMost(v, DocThreshold))
                   => output[1][col] = EmptyLabel
            /\ ColumnConverted(col) => output[1][col] = UnitLabel(st_conversion_unit)

\* C8: after create_preserve_excel every formula cell (a text that starts
\* with '=') holds its formula text in the output workbook, with or without a
\* computed value in the file.
C8_FormulaTextKept ==
    uploaded_file.type = "xlsx" =>
        \A row \in DOMAIN uploaded_file.doc : \A col \in DOMAIN uploaded_file.doc[row] :
            LET cell == uploaded_file.doc[row][col]
            IN  (cell.value.k = "str" /\ StartsWith(cell.value.s, <<"=">>))
                    => output[row + 1][col] = cell.value

\* what process_cell_batch gives for val alone, with the settings of the run
SingleResult(val) ==
    process_cell_batch(<<val>>, st_conversion_unit, DocThreshold, use_gemini,
                       env.tie, env.gemini, Emp).results

\* C9: process_cell_batch does not raise and returns a list as long as its
\* input, whose element i comes from input element i alone (it is what the
\* function gives for that element by itself); a cell whose processing raises
\* comes back as it was; and create_preserve_excel writes result i to the
\* (row, col) value i was read from.
C9_OneResultPerCell ==
    \A b \in DOMAIN batches :
        /\ Len(batches[b].processed_values) = Len(batches[b].cell_values)
        /\ \A i \in DOMAIN batches[b].cell_values :
              /\ batches[b].processed_values[i] /= Raise
              /\ SingleResult(batches[b].cell_values[i]) = <<batches[b].processed_values[i]>>
              /\ batches[b].cell_values[i].k = "bigint"
                    => batches[b].processed_values[i] = batches[b].cell_values[i]
              /\ uploaded_file.type = "xlsx" =>
                    \E pos \in {batches[b].cell_positions[i]} :
                        \E cell \in {uploaded_file.doc[pos[1]][pos[2]]} :
                            /\ batches[b].cell_values[i] \in {cell.value, cell.data} \ {NoneV}
                            /\ output[pos[1] + 1][pos[2]] = batches[b].processed_values[i]
                            /\ \A j \in DOMAIN batches[b].cell_positions :
                                  batches[b].cell_positions[j] = pos => j = i

\* a workbook was processed in which an empty cell was skipped, the int too
\* large for a float came back as it was, and another cell was converted
C9_Witness ==
    /\ uploaded_file.type = "xlsx"
    /\ Len(batches) = 1
    /\ Len(batches[1].cell_values) < max_row(uploaded_file.doc) * max_column(uploaded_file.doc)
    /\ \E i \in DOMAIN batches[1].cell_values :
          /\ batches[1].cell_values[i].k = "bigint"
          /\ batches[1].processed_values[i] = batches[1].cell_values[i]
    /\ \E i \in DOMAIN batches[1].cell_values :
          batches[1].processed_values[i] /= batches[1].cell_values[i]

\* C10: the threshold that decides which cells of a document are converted is
\* the one the user selected (default 20): a numeric cell with abs(value) at
\* or below it is left as it is, one with abs(value) above it is converted.
C10_SelectedThresholdDecides ==
    \A b \in DOMAIN batches : \A i \in DOMAIN batches[b].cell_values :
        IsIntOrFloat(batches[b].cell_values[i]) =>
            (AbsAtMost(batches[b].cell_values[i], st_threshold)
                <=> batches[b].processed_values[i] = batches[b].cell_values[i])

\* the slider stands at 50 and the cell 30 of the workbook was converted
C10_BelowSelectedConverted ==
    /\ st_threshold = 50
    /\ \E b \in DOMAIN batches : \E i \in DOMAIN batches[b].cell_values :
          /\ batches[b].cell_values[i] = IntV(30)
          /\ batches[b].processed_values[i] /= IntV(30)

\* the text that stands for the literal m of an extracted number: its own
\* converted value when the number is above the threshold, else m itself
LiteralRewritten(m, factor, threshold, tie) ==
    IF AbsGreater(ParseFloat(m), threshold)
    THEN StrNum(Convert(ParseFloat(m), factor, tie))
    ELSE m

\* the text s from position i on, in which the literal of each extracted
\* number above the threshold is replaced once by its converted value and
\* every other character is kept in its place
RECURSIVE LiteralsRewritten(_, _, _, _, _)
LiteralsRewritten(s, i, factor, threshold, tie) ==
    IF i > Len(s) THEN <<>>
    ELSE IF Ends(NumberRe, s, {i}) = {}
         THEN <<s[i]>> \o LiteralsRewritten(s, i + 1, factor, threshold, tie)
         ELSE LiteralRewritten(SubSeq(s, i, SetMax(Ends(NumberRe, s, {i})) - 1),
                               factor, threshold, tie)
              \o LiteralsRewritten(s, SetMax(Ends(NumberRe, s, {i})), factor, threshold, tie)

\* a direct call on a text the classifier lets through in which the number
\* pattern finds numbers
MonetaryTextCalled ==
    /\ Called
    /\ arg.val.k = "str"
    /\ ~is_non_monetary_content(arg.val.s)
    /\ ExtractNumbers(arg.val.s) /= <<>>

\* C11: for a monetary text whose largest extracted number is above the
\* threshold, the result differs from the text only at the literals of the
\* extracted numbers that are themselves above the threshold, each replaced
\* once by its own converted value; numbers at or below the threshold and
\* all other characters stay as they are and in order.  When the largest
\* number is at or below the threshold the text is returned verbatim.
\* (Stated for texts without a comma, where the literal of an extracted
\* number is the very substring the pattern matched.)
C11_OnlyLiteralsAboveThresholdRewritten ==
    MonetaryTextCalled =>
        IF AbsGreater(LargestNum(ExtractNumbers(arg.val.s)), arg.threshold)
        THEN ("," \in {arg.val.s[i] : i \in DOMAIN arg.val.s})
             \/ Returned(StrV(LiteralsRewritten(arg.val.s, 1,
                                  conversion_factors(arg.conversion_unit),
                                  arg.threshold, arg.tie)))
        ELSE Returned(arg.val)

\* convert_units_in_cell has returned "Total 150" as it was, under Hundred
\* and threshold 20
C11_IntegerLiteralKept ==
    /\ pc = "cell"
    /\ arg.val = StrV(<<"T", "o", "t", "a", "l", " ", "1", "5", "0">>)
    /\ arg.conversion_unit = "Hundred"
    /\ arg.threshold = 20
    /\ ret = arg.val

\* C12: the number pattern is applied to the text without its commas, so
\* every number it extracts from a text cell has an absolute value below 1000
\* (at most 3 integer digits and 2 decimals); hence the date guard, which
\* wants exactly three numbers of which the third exceeds 1900, holds of no
\* text, in convert_units_in_cell and in process_cell_batch.
C12_ExtractedBelowThousand ==
    (Called /\ arg.val.k = "str") =>
        /\ \A i \in DOMAIN ExtractNumbers(arg.val.s) :
              /\ ExtractNumbers(arg.val.s)[i].ip < 1000
              /\ ExtractNumbers(arg.val.s)[i].c \in 0..99
        /\ ~DateGuard(ExtractNumbers(arg.val.s))

\* process_cell_batch was called on "12 5 999": three numbers are extracted,
\* the first two lie between 0 and 32, the third does not exceed 1900
C12_Witness ==
    /\ pc = "batch"
    /\ arg.val = StrV(<<"1", "2", " ", "5", " ", "9", "9", "9">>)
    /\ ExtractNumbers(arg.val.s)
           = <<FloatV(FALSE, 12, 0), FloatV(FALSE, 5, 0), FloatV(FALSE, 999, 0)>>
    /\ ~DateGuard(ExtractNumbers(arg.val.s))
    /\ ret = <<arg.val>>

====
